---- MODULE Spec2Model ----
(***************************************************************************)
(* State-machine model of the mdlm command line client (src/mdlm):         *)
(* clone / pull / status / push against a Remote Store, with the manifest  *)
(* file .mdlm/manifest.json and the files under knowledge/.                *)
(*                                                                         *)
(* A Python str is modelled as a sequence of one-character strings, a      *)
(* relative path as the tuple of its parts <<"knowledge", part, ...>>, a   *)
(* dict (the manifest) as an insertion-ordered association list.           *)
(***************************************************************************)
EXTENDS Integers, Sequences, FiniteSets, TLC

VARIABLES
    fs,            \* local files: path -> bytes on disk (DOMAIN = files that exist)
    manifestFile,  \* .mdlm/manifest.json: [state: absent | ok | torn, data]
    remote,        \* Remote Store: id -> document (DOMAIN = documents that exist)
    nextId,        \* next id the Remote Store hands out on create
    pc,            \* position of the running command ("idle" when none runs)
    manifest,      \* the running command's in-memory manifest
    todo,          \* remaining items of the running loop: the keys of
                   \* list(manifest.items()), or the documents clone received
    scan,          \* remaining items of sorted(knowledge_dir.rglob("*.md"))
    args,          \* arguments of the running (or last) command
    cur,           \* push: the item between its get_doc and its update_doc, and
                   \* between the answer to its update / create and the save
    counts,        \* created / updated / deleted / errors of the running command
    calls,         \* Remote Store calls issued by the running (or last) command
    report,        \* per-path lines printed by the running (or last) command
    exit,          \* how the last command ended
    statusOut,     \* what the last status printed
    synced,        \* "clone" / "pull": the local files are as it wrote them, "no" otherwise
    used           \* how much of each budget the behaviour has used

vars == <<fs, manifestFile, remote, nextId, pc, manifest, todo, scan, args, cur,
          counts, calls, report, exit, statusOut, synced, used>>

(***************************************************************************)
(* Bounds of the model.                                                    *)
(***************************************************************************)
MaxCmds == 1    \* commands run after the initial state
MaxEdits == 2   \* edits: of a local file by the user, of a document by another writer
MaxFaults == 1  \* Remote Store calls that fail although the request is fine
MaxIds == 6     \* ids the Remote Store can hand out
MaxLen == 3     \* length of the category and title strings drawn for the path check
MaxSeq == 3     \* commands run one after the other where sequences of commands are checked

(***************************************************************************)
(* Strings.                                                                *)
(***************************************************************************)
None == <<"None">>

\* a truth test that holds for no value: the filter it guards is never applied
Truthy_Never(x) == FALSE

\* truth value of an optional str: None and "" are false (`if category and ...`)
Truthy(x) == x # None /\ x # <<>>

Letters == <<"a","b","c","d","e","f","g","h","i","j","k","l","m",
             "n","o","p","q","r","s","t","u","v","w","x","y","z">>

\* ord(c): the code point of a character, for str comparison
ord(c) ==
    IF \E i \in DOMAIN Letters : Letters[i] = c
    THEN 96 + (CHOOSE i \in DOMAIN Letters : Letters[i] = c)
    ELSE CASE c = "NUL" -> 0
           [] c = "\n" -> 10
           [] c = "\r" -> 13
           [] c = " " -> 32
           [] c = "." -> 46
           [] c = "/" -> 47
           [] c = "A" -> 65
           [] c = "B" -> 66
           [] c = "\\" -> 92
           [] c = "_" -> 95
           [] OTHER -> 127

RECURSIVE StrLess(_, _)
StrLess(s, t) ==
    IF t = <<>> THEN FALSE
    ELSE IF s = <<>> THEN TRUE
    ELSE IF ord(Head(s)) # ord(Head(t)) THEN ord(Head(s)) < ord(Head(t))
    ELSE StrLess(Tail(s), Tail(t))

\* str.replace(ch, r) for a single character ch
Replace(name, ch, r) == [i \in 1..Len(name) |-> IF name[i] = ch THEN r ELSE name[i]]

RECURSIVE LStrip(_, _)
LStrip(name, chars) ==
    IF name # <<>> /\ Head(name) \in chars THEN LStrip(Tail(name), chars) ELSE name

RECURSIVE RStrip(_, _)
RStrip(name, chars) ==
    IF name # <<>> /\ name[Len(name)] \in chars
    THEN RStrip(SubSeq(name, 1, Len(name) - 1), chars)
    ELSE name

\* a strip that leaves the leading characters in place
Strip_Right(name, chars) == RStrip(name, chars)

\* str.strip(chars)
Strip(name, chars) == RStrip(LStrip(name, chars), chars)

\* fnmatch of a file name against "*.md"
EndsWithMd(name) ==
    /\ Len(name) >= 3
    /\ SubSeq(name, Len(name) - 2, Len(name)) = <<".", "m", "d">>

_KNOWLEDGE_DIR == "knowledge"

_safe_filename(name) ==
    LET a == Replace(name, "/", "_")
        b == Replace(a, "\\", "_")
        c == Replace(b, "NUL", "_")
        d == Strip(c, {".", " "})
    IN  IF d = <<>> THEN <<"_">> ELSE d

_local_path(category, title) ==
    <<_KNOWLEDGE_DIR, _safe_filename(category), _safe_filename(title)>>

VALID_CATEGORIES == {
    <<"a","r","c","h","i","t","e","c","t","u","r","e">>,
    <<"s","t","a","c","k">>,
    <<"t","e","s","t","i","n","g">>,
    <<"d","e","p","l","o","y","m","e","n","t">>,
    <<"s","e","c","u","r","i","t","y">>,
    <<"s","t","y","l","e">>,
    <<"d","e","p","e","n","d","e","n","c","i","e","s">>,
    <<"e","r","r","o","r","_","h","a","n","d","l","i","n","g">>,
    <<"b","u","s","i","n","e","s","s","_","l","o","g","i","c">>,
    <<"g","e","n","e","r","a","l">> }

general == <<"g","e","n","e","r","a","l">>
stack == <<"s","t","a","c","k">>
style == <<"s","t","y","l","e">>

(***************************************************************************)
(* Text files.  Path.write_text / Path.read_text open the file in text     *)
(* mode with newline=None: on write "\n" becomes os.linesep, on read       *)
(* "\r\n" and a lone "\r" become "\n".                                     *)
(***************************************************************************)
os_linesep == <<"\n">>

RECURSIVE write_text(_)
write_text(content) ==
    IF content = <<>> THEN <<>>
    ELSE (IF Head(content) = "\n" THEN os_linesep ELSE <<Head(content)>>)
         \o write_text(Tail(content))

RECURSIVE read_text(_)
read_text(bytes) ==
    IF bytes = <<>> THEN <<>>
    ELSE IF Head(bytes) = "\r"
         THEN IF Len(bytes) >= 2 /\ bytes[2] = "\n"
              THEN <<"\n">> \o read_text(SubSeq(bytes, 3, Len(bytes)))
              ELSE <<"\n">> \o read_text(Tail(bytes))
         ELSE <<Head(bytes)>> \o read_text(Tail(bytes))

\* what the disk holds for a file that exists but whose read raises: one
\* the process has no permission to read, or one that is not valid UTF-8
Unreadable == <<"EACCES">>

\* the outcome of a read that raises (PermissionError, UnicodeDecodeError)
Raises == <<"raises">>

\* if not p.exists(): return None; return p.read_text(encoding="utf-8")
_read_local(files, rel_path) ==
    IF rel_path \notin DOMAIN files THEN None
    ELSE IF files[rel_path] = Unreadable THEN Raises
    ELSE read_text(files[rel_path])

_write_local(files, rel_path, content) ==
    [p \in DOMAIN files \cup {rel_path} |->
        IF p = rel_path THEN write_text(content) ELSE files[p]]

\* p.write_text cut short after the open that creates or truncates the file
Truncated(files, rel_path) ==
    [p \in DOMAIN files \cup {rel_path} |->
        IF p = rel_path THEN <<>> ELSE files[p]]

\* hashlib.sha256(content.encode("utf-8")).hexdigest(): injective on the model's texts
sha256(content) == <<"sha256", content>>

(***************************************************************************)
(* Manifest (manifest.py): a dict path -> entry, kept in insertion order.  *)
(* An entry written by an older version has no "content_hash" key: its     *)
(* entry.get("content_hash") is None.                                      *)
(***************************************************************************)
Keys(m) == {m[i].path : i \in DOMAIN m}

KeyList(m) == [i \in DOMAIN m |-> m[i].path]

\* manifest.get(rel_path)
get_entry(m, rel_path) ==
    IF rel_path \in Keys(m)
    THEN (m[CHOOSE i \in DOMAIN m : m[i].path = rel_path]).entry
    ELSE None

add_entry(m, rel_path, entry) ==
    IF rel_path \in Keys(m)
    THEN [i \in DOMAIN m |-> IF m[i].path = rel_path
                             THEN [path |-> rel_path, entry |-> entry] ELSE m[i]]
    ELSE Append(m, [path |-> rel_path, entry |-> entry])

remove_entry(m, rel_path) == SelectSeq(m, LAMBDA x : x.path # rel_path)

is_initialized == manifestFile.state # "absent"

\* load(): {} when the file is absent; a file that does not parse is fatal
LoadFails == manifestFile.state = "torn"

load == IF manifestFile.state = "ok" THEN manifestFile.data ELSE <<>>

\* save(): write_text opens the file for writing, which truncates it, and then
\* writes the text; a process killed in between leaves a truncated file
save(m, torn) ==
    IF torn THEN [state |-> "torn", data |-> <<>>] ELSE [state |-> "ok", data |-> m]

(***************************************************************************)
(* Remote Store, as the client (api.py) sees it.                           *)
(***************************************************************************)
Faulty == {"error", "auth", "timeout"}

\* answers a call can get: the one the store's state gives, or a failure
Responses(natural) ==
    {natural} \cup (IF used.faults < MaxFaults THEN Faulty ELSE {})

Natural(doc_id) == IF doc_id \in DOMAIN remote THEN "ok" ELSE "error"

Charge(r, natural) ==
    IF r = natural THEN used ELSE [used EXCEPT !.faults = @ + 1]

Doc(store, doc_id) ==
    [id |-> doc_id, version |-> store[doc_id].version, title |-> store[doc_id].title,
     category |-> store[doc_id].category, content |-> store[doc_id].content]

\* GET /api/knowledge?category=...
list_docs(category) ==
    {d \in DOMAIN remote : ~Truthy(category) \/ remote[d].category = category}

\* an update whose payload carries no content: the version is bumped alone
update_doc_KeepsContent(store, doc_id, title, content, category) ==
    [store EXCEPT ![doc_id] = [version |-> @.version + 1, title |-> title,
                               category |-> category, content |-> @.content]]

\* PUT /api/knowledge/<id>: the store bumps the version
update_doc(store, doc_id, title, content, category) ==
    [store EXCEPT ![doc_id] = [version |-> @.version + 1, title |-> title,
                               category |-> category, content |-> content]]

\* POST /api/knowledge: a new document, version 1, under a fresh id
create_doc(store, new_id, title, content, category) ==
    [d \in DOMAIN store \cup {new_id} |->
        IF d = new_id
        THEN [version |-> 1, title |-> title, category |-> category, content |-> content]
        ELSE store[d]]

\* DELETE /api/knowledge/<id>
delete_doc(store, doc_id) == [d \in DOMAIN store \ {doc_id} |-> store[d]]

(***************************************************************************)
(* Inputs.                                                                 *)
(***************************************************************************)
Contents == { <<"A">>, <<"B", "\r", "\n">> }

a_md == <<"a", ".", "m", "d">>
b_md == <<"b", ".", "m", "d">>
n_md == <<"n", ".", "m", "d">>

CatalogueCategory == <<stack, style>>
CatalogueTitle == <<a_md, b_md>>

\* the Remote Store before the first command: the catalogue's documents, the
\* first with any content, the second with plain text
InitialStores ==
    { [d \in DOMAIN CatalogueTitle |->
          [version |-> 1, title |-> CatalogueTitle[d], category |-> CatalogueCategory[d],
           content |-> IF d = 1 THEN c ELSE <<"A">>]]
      : c \in Contents }

\* paths where the user may put a file of their own
AddablePaths == { <<_KNOWLEDGE_DIR, n_md>> }

\* --category: absent, empty, a category with a document, one without, an unknown one
CategoryArgs == { None, <<>>, stack, general, <<"x">> }

NoCur == [path |-> None]
NoCounts == [created |-> 0, updated |-> 0, deleted |-> 0, errors |-> 0]
NoStatus == [ran |-> FALSE, new |-> {}, modified |-> {}, deleted |-> {}, nothing |-> FALSE]
NoArgs == [cmd |-> "none", category |-> None, delete |-> FALSE]

\* a working directory left by an older version: one tracked file, no stored hash
LegacyManifest(store) ==
    << [path |-> _local_path(store[1].category, store[1].title),
        entry |-> [id |-> 1, version |-> store[1].version,
                   category |-> store[1].category, title |-> store[1].title,
                   content_hash |-> None]] >>

(***************************************************************************)
(* The environment: the user edits files, another writer edits documents.  *)
(***************************************************************************)
\* no command locks the directory: the user writes between commands and
\* between the steps of a running one
UserWrite(p, bytes) ==
    /\ used.edits < MaxEdits
    /\ used.cmds < MaxCmds \/ pc # "idle"
    /\ p \in DOMAIN fs => fs[p] # bytes
    /\ fs' = [q \in DOMAIN fs \cup {p} |-> IF q = p THEN bytes ELSE fs[q]]
    /\ synced' = "no"
    /\ used' = [used EXCEPT !.edits = @ + 1]
    /\ UNCHANGED <<manifestFile, remote, nextId, pc, manifest, todo, scan, args, cur,
                   counts, calls, report, exit, statusOut>>

UserDelete(p) ==
    /\ used.edits < MaxEdits
    /\ used.cmds < MaxCmds \/ pc # "idle"
    /\ p \in DOMAIN fs
    /\ fs' = [q \in DOMAIN fs \ {p} |-> fs[q]]
    /\ synced' = "no"
    /\ used' = [used EXCEPT !.edits = @ + 1]
    /\ UNCHANGED <<manifestFile, remote, nextId, pc, manifest, todo, scan, args, cur,
                   counts, calls, report, exit, statusOut>>

OtherWriter(doc_id, content) ==
    /\ pc \in {"idle", "push_update", "push_updated"}
    /\ used.cmds < MaxCmds \/ pc # "idle"
    /\ used.edits < MaxEdits
    /\ doc_id \in DOMAIN remote
    /\ remote' = update_doc(remote, doc_id, remote[doc_id].title, content,
                            remote[doc_id].category)
    /\ used' = [used EXCEPT !.edits = @ + 1]
    /\ UNCHANGED <<fs, manifestFile, nextId, pc, manifest, todo, scan, args, cur,
                   counts, calls, report, exit, statusOut, synced>>

(***************************************************************************)
(* Commands: what every command does when it starts and when it ends.      *)
(***************************************************************************)
\* a command starts: fresh counters, nothing printed, no call made
Begin(cmd, category, delete) ==
    /\ pc = "idle"
    /\ used.cmds < MaxCmds
    /\ args' = [cmd |-> cmd, category |-> category, delete |-> delete]
    /\ counts' = NoCounts
    /\ report' = <<>>

\* the process ends: sys.exit, return from the command, an uncaught exception, a kill
End(code) ==
    /\ pc' = "idle"
    /\ exit' = code
    /\ manifest' = <<>>
    /\ todo' = <<>>
    /\ scan' = <<>>
    /\ cur' = NoCur

\* a 401 / 403 that is raised like any other failure
Fatal_AuthRaises(r) == "traceback"

\* how a call that did not answer "ok" or "error" ends the process:
\* 401 / 403 -> sys.exit(1); a transport failure raises an exception nobody catches
Fatal(r) == IF r = "auth" THEN "1" ELSE "traceback"

\* a call as the Remote Store sees it; list and create name no document (id 0)
Call(op, doc_id, content, r) ==
    [op |-> op, id |-> doc_id, title |-> None, category |-> None, content |-> content,
     result |-> r]

Send(op, doc_id, title, category, content, r) ==
    [op |-> op, id |-> doc_id, title |-> title, category |-> category,
     content |-> content, result |-> r]

(***************************************************************************)
(* clone                                                                   *)
(***************************************************************************)
\* an entry whose hash is taken before the content is there
Entry_HashOfNothing(doc, content) ==
    [id |-> doc.id, version |-> doc.version, category |-> doc.category,
     title |-> doc.title, content_hash |-> sha256(<<>>)]

\* the manifest entry of a document whose content has just been written or sent
Entry(doc, content) ==
    [id |-> doc.id, version |-> doc.version, category |-> doc.category,
     title |-> doc.title, content_hash |-> sha256(content)]

\* the loop of cmd_clone over the documents returned, in the order returned
RECURSIVE CloneLoop(_, _, _)
CloneLoop(docs, files, m) ==
    IF docs = <<>> THEN [files |-> files, manifest |-> m]
    ELSE LET doc == Doc(remote, Head(docs))
             rel == _local_path(doc.category, doc.title)
         IN  CloneLoop(Tail(docs), _write_local(files, rel, doc.content),
                       add_entry(m, rel, Entry(doc, doc.content)))

\* the orders in which the store may return a set of documents
Orders(S) == {q \in [1..Cardinality(S) -> S] : \A d \in S : \E i \in DOMAIN q : q[i] = d}

cmd_clone(category) ==
    /\ Begin("clone", category, FALSE)
    /\ statusOut' = NoStatus
    /\ UNCHANGED <<remote, nextId>>
    /\ IF is_initialized \/ (Truthy(category) /\ category \notin VALID_CATEGORIES)
       THEN /\ End("1")
            /\ calls' = <<>>
            /\ used' = [used EXCEPT !.cmds = @ + 1]
            /\ UNCHANGED <<fs, manifestFile, synced>>
       ELSE \E r \in Responses("ok") :
            /\ calls' = <<Send("list", 0, None, category, None, r)>>
            /\ used' = [Charge(r, "ok") EXCEPT !.cmds = @ + 1]
            /\ IF r # "ok"
               THEN /\ End(IF r = "error" THEN "1" ELSE Fatal(r))
                    /\ UNCHANGED <<fs, manifestFile, synced>>
               ELSE \E docs \in Orders(list_docs(category)) :
                    IF docs = <<>>
                    THEN /\ End("0")
                         /\ UNCHANGED <<fs, manifestFile, synced>>
                    ELSE /\ pc' = "clone_loop"
                         /\ manifest' = <<>>
                         /\ todo' = [i \in DOMAIN docs |-> Doc(remote, docs[i])]
                         /\ exit' = "running"
                         /\ UNCHANGED <<fs, manifestFile, synced, scan, cur>>

\* one iteration of the loop of cmd_clone over the documents returned
CloneItem ==
    /\ pc = "clone_loop"
    /\ todo # <<>>
    /\ LET doc == Head(todo)
           rel == _local_path(doc.category, doc.title)
       IN  \E torn \in BOOLEAN :
           IF torn
           THEN /\ fs' = Truncated(fs, rel)
                /\ End("killed")
           ELSE /\ fs' = _write_local(fs, rel, doc.content)
                /\ manifest' = add_entry(manifest, rel, Entry(doc, doc.content))
                /\ todo' = Tail(todo)
                /\ UNCHANGED <<pc, scan, cur, exit>>
    /\ UNCHANGED <<manifestFile, remote, nextId, args, counts, calls, report,
                   statusOut, synced, used>>

\* after the loop: mf.save(manifest) and the summary
CloneSave ==
    /\ pc = "clone_loop"
    /\ todo = <<>>
    /\ \E torn \in BOOLEAN :
       /\ manifestFile' = save(manifest, torn)
       /\ synced' = IF ~torn /\ DOMAIN fs = Keys(manifest) THEN "clone" ELSE "no"
       /\ End(IF torn THEN "killed" ELSE "0")
    /\ UNCHANGED <<fs, remote, nextId, args, counts, calls, report, statusOut, used>>

(***************************************************************************)
(* status                                                                  *)
(***************************************************************************)
\* knowledge_dir.rglob("*.md"), as the strings str(p)
local_files(files) == {p \in DOMAIN files : EndsWithMd(p[Len(p)])}

StatusDeleted(m, files) == {p \in Keys(m) : _read_local(files, p) = None}

\* a status that does not look whether the entry has a stored hash
StatusModified_AnyHash(m, files) ==
    {p \in Keys(m) :
        /\ _read_local(files, p) # None
        /\ sha256(_read_local(files, p)) # get_entry(m, p).content_hash}

StatusModified(m, files) ==
    {p \in Keys(m) :
        /\ _read_local(files, p) # None
        /\ get_entry(m, p).content_hash # None
        /\ sha256(_read_local(files, p)) # get_entry(m, p).content_hash}

StatusNew(m, files) == {p \in local_files(files) : p \notin Keys(m)}

\* a summary line that looks at the new and the modified files only
NothingToPush_IgnoresDeleted(new_files, modified, deleted) ==
    new_files = {} /\ modified = {}

\* if not new_files and not modified and not deleted: "Nothing to push"
NothingToPush(new_files, modified, deleted) ==
    new_files = {} /\ modified = {} /\ deleted = {}

cmd_status ==
    /\ Begin("status", None, FALSE)
    /\ calls' = <<>>
    /\ used' = [used EXCEPT !.cmds = @ + 1]
    /\ IF ~is_initialized \/ LoadFails
       THEN /\ End("1")
            /\ statusOut' = NoStatus
       ELSE IF \E p \in Keys(load) : _read_local(fs, p) = Raises
       THEN /\ End("traceback")
            /\ statusOut' = NoStatus
       ELSE /\ End("0")
            /\ statusOut' = [ran |-> TRUE, new |-> StatusNew(load, fs),
                             modified |-> StatusModified(load, fs),
                             deleted |-> StatusDeleted(load, fs),
                             nothing |-> NothingToPush(StatusNew(load, fs),
                                                       StatusModified(load, fs),
                                                       StatusDeleted(load, fs))]
    /\ UNCHANGED <<fs, manifestFile, remote, nextId, synced>>

(***************************************************************************)
(* pull                                                                    *)
(***************************************************************************)
Printed(kind, rel_path) == [kind |-> kind, path |-> rel_path]

\* an error that is printed and not counted
ItemError_Uncounted(c) == c

\* errors += 1
ItemError(c) == [c EXCEPT !.errors = @ + 1]

\* a loop that stops at the first failed item
Continue_Breaks(items) == <<>>

\* continue: on to the next item of the loop
Continue(items) == Tail(items)

cmd_pull ==
    /\ Begin("pull", None, FALSE)
    /\ statusOut' = NoStatus
    /\ calls' = <<>>
    /\ used' = [used EXCEPT !.cmds = @ + 1]
    /\ IF ~is_initialized \/ LoadFails
       THEN End("1") /\ UNCHANGED synced
       ELSE IF load = <<>>
       THEN End("0") /\ UNCHANGED synced
       ELSE /\ pc' = "pull_loop"
            /\ manifest' = load
            /\ todo' = KeyList(load)
            /\ synced' = "no"
            /\ exit' = "running"
            /\ UNCHANGED <<scan, cur>>
    /\ UNCHANGED <<fs, manifestFile, remote, nextId>>

\* an entry that takes the id of the fetched document's position in no store
Pulled_ForgetsId(entry, doc) ==
    [id |-> 0, version |-> doc.version, category |-> doc.category,
     title |-> doc.title, content_hash |-> sha256(doc.content)]

\* a pull that records the first version whatever version it fetched
Pulled_ResetsVersion(entry, doc) ==
    [entry EXCEPT !.version = 1, !.title = doc.title,
                  !.category = doc.category, !.content_hash = sha256(doc.content)]

\* entry["version"], entry["title"], entry["category"], entry["content_hash"]
\* are assigned from the fetched document; the entry keeps its id
Pulled(entry, doc) ==
    [entry EXCEPT !.version = doc.version, !.title = doc.title,
                  !.category = doc.category, !.content_hash = sha256(doc.content)]

\* one iteration of the loop of cmd_pull
PullItem ==
    /\ pc = "pull_loop"
    /\ todo # <<>>
    /\ LET rel_path == Head(todo)
           entry == get_entry(manifest, rel_path)
       IN  \E r \in Responses(Natural(entry.id)) :
           /\ calls' = Append(calls, Call("get", entry.id, None, r))
           /\ used' = Charge(r, Natural(entry.id))
           /\ IF r = "error"
              THEN /\ report' = Append(report, Printed("error", rel_path))
                   /\ counts' = ItemError(counts)
                   /\ todo' = Continue(todo)
                   /\ UNCHANGED <<fs, manifest, pc, scan, cur, exit>>
              ELSE IF r # "ok"
              THEN /\ End(Fatal(r))
                   /\ UNCHANGED <<fs, report, counts>>
              ELSE LET doc == Doc(remote, entry.id) IN
                   \E torn \in BOOLEAN :
                   IF torn
                   THEN /\ fs' = Truncated(fs, rel_path)
                        /\ End("killed")
                        /\ UNCHANGED <<report, counts>>
                   ELSE /\ fs' = _write_local(fs, rel_path, doc.content)
                        /\ manifest' = add_entry(manifest, rel_path, Pulled(entry, doc))
                        /\ counts' = [counts EXCEPT !.updated = @ + 1]
                        /\ todo' = Tail(todo)
                        /\ UNCHANGED <<report, pc, scan, cur, exit>>
    /\ UNCHANGED <<manifestFile, remote, nextId, args, statusOut, synced>>

\* after the loop: mf.save(manifest) and the summary
PullSave ==
    /\ pc = "pull_loop"
    /\ todo = <<>>
    /\ \E torn \in BOOLEAN :
       /\ manifestFile' = save(manifest, torn)
       /\ synced' = IF ~torn /\ counts.errors = 0 /\ DOMAIN fs = Keys(manifest)
                    THEN "pull" ELSE "no"
       /\ End(IF torn THEN "killed" ELSE "0")
    /\ UNCHANGED <<fs, remote, nextId, args, counts, calls, report, statusOut, used>>

(***************************************************************************)
(* push                                                                    *)
(***************************************************************************)
\* if stored_hash == current_hash: continue
Unchanged(entry, content) == entry.content_hash = sha256(content)

\* a version check that only notices a remote version behind the stored one
Conflict_OnlyOlder(remote_doc, entry) == remote_doc.version < entry.version

\* if remote_version != local_version: conflict
Conflict(remote_doc, entry) == remote_doc.version # entry.version

\* an update that records the new hash and forgets the new version
Updated_KeepsVersion(entry, doc, content) ==
    [entry EXCEPT !.content_hash = sha256(content)]

\* entry["version"] = doc["version"]; entry["content_hash"] = current_hash
Updated(entry, doc, content) ==
    [entry EXCEPT !.version = doc.version, !.content_hash = sha256(content)]

cmd_push(category_filter, delete) ==
    /\ Begin("push", category_filter, delete)
    /\ statusOut' = NoStatus
    /\ calls' = <<>>
    /\ used' = [used EXCEPT !.cmds = @ + 1]
    /\ IF \/ ~is_initialized
          \/ LoadFails
          \/ (Truthy(category_filter) /\ category_filter \notin VALID_CATEGORIES)
       THEN End("1")
       ELSE /\ pc' = "push_tracked"
            /\ manifest' = load
            /\ todo' = KeyList(load)
            /\ exit' = "running"
            /\ UNCHANGED <<scan, cur>>
    /\ UNCHANGED <<fs, manifestFile, remote, nextId, synced>>

\* phase 1, one iteration of the loop over the tracked entries, up to and
\* including the version check; the update itself is PushUpdate
PushTracked ==
    /\ pc = "push_tracked"
    /\ todo # <<>>
    /\ LET rel_path == Head(todo)
           entry == get_entry(manifest, rel_path)
           content == _read_local(fs, rel_path)
       IN
       IF Truthy(args.category) /\ entry.category # args.category
       THEN \* filtered out
            /\ todo' = Tail(todo)
            /\ UNCHANGED <<remote, pc, manifest, scan, cur, counts, calls, report,
                           exit, used>>
       ELSE IF content = Raises
       THEN \* the read raises outside every try block
            /\ End("traceback")
            /\ UNCHANGED <<remote, counts, calls, report, used>>
       ELSE IF content = None /\ ~args.delete
       THEN \* deleted locally, no --delete
            /\ report' = Append(report, Printed("skipped", rel_path))
            /\ todo' = Tail(todo)
            /\ UNCHANGED <<remote, pc, manifest, scan, cur, counts, calls, exit, used>>
       ELSE IF content = None
       THEN \* deleted locally, --delete
            \E r \in Responses(Natural(entry.id)) :
            /\ calls' = Append(calls, Call("delete", entry.id, None, r))
            /\ used' = Charge(r, Natural(entry.id))
            /\ IF r = "ok"
               THEN /\ remote' = delete_doc(remote, entry.id)
                    /\ manifest' = remove_entry(manifest, rel_path)
                    /\ report' = Append(report, Printed("deleted", rel_path))
                    /\ counts' = [counts EXCEPT !.deleted = @ + 1]
                    /\ todo' = Tail(todo)
                    /\ UNCHANGED <<pc, scan, cur, exit>>
               ELSE IF r = "error"
               THEN /\ report' = Append(report, Printed("error", rel_path))
                    /\ counts' = ItemError(counts)
                    /\ todo' = Continue(todo)
                    /\ UNCHANGED <<remote, pc, manifest, scan, cur, exit>>
               ELSE /\ End(Fatal(r))
                    /\ UNCHANGED <<remote, report, counts>>
       ELSE IF Unchanged(entry, content)
       THEN \* unchanged
            /\ todo' = Tail(todo)
            /\ UNCHANGED <<remote, pc, manifest, scan, cur, counts, calls, report,
                           exit, used>>
       ELSE \* changed: version conflict check
            \E r \in Responses(Natural(entry.id)) :
            /\ calls' = Append(calls, Call("get", entry.id, None, r))
            /\ used' = Charge(r, Natural(entry.id))
            /\ UNCHANGED remote
            /\ IF r = "error"
               THEN /\ report' = Append(report, Printed("error", rel_path))
                    /\ counts' = ItemError(counts)
                    /\ todo' = Continue(todo)
                    /\ UNCHANGED <<pc, manifest, scan, cur, exit>>
               ELSE IF r # "ok"
               THEN /\ End(Fatal(r))
                    /\ UNCHANGED <<report, counts>>
               ELSE IF Conflict(Doc(remote, entry.id), entry)
               THEN /\ report' = Append(report, Printed("conflict", rel_path))
                    /\ counts' = ItemError(counts)
                    /\ todo' = Continue(todo)
                    /\ UNCHANGED <<pc, manifest, scan, cur, exit>>
               ELSE /\ pc' = "push_update"
                    /\ cur' = [path |-> rel_path, content |-> content]
                    /\ UNCHANGED <<todo, manifest, scan, counts, report, exit>>
    /\ UNCHANGED <<fs, manifestFile, nextId, args, statusOut, synced>>

\* phase 1, the update of the entry whose version check passed
PushUpdate ==
    /\ pc = "push_update"
    /\ LET rel_path == cur.path
           entry == get_entry(manifest, rel_path)
       IN  \E r \in Responses(Natural(entry.id)) :
           /\ calls' = Append(calls, Send("update", entry.id, entry.title, entry.category,
                                           cur.content, r))
           /\ used' = Charge(r, Natural(entry.id))
           /\ IF r = "ok"
              THEN LET store == update_doc(remote, entry.id, entry.title, cur.content,
                                           entry.category)
                   IN  /\ remote' = store
                       /\ cur' = [path |-> rel_path, content |-> cur.content,
                                  doc |-> Doc(store, entry.id)]
                       /\ pc' = "push_updated"
                       /\ UNCHANGED <<manifest, todo, scan, counts, report, exit>>
              ELSE IF r = "error"
              THEN /\ report' = Append(report, Printed("error", rel_path))
                   /\ counts' = ItemError(counts)
                   /\ pc' = "push_tracked"
                   /\ todo' = Continue(todo)
                   /\ cur' = NoCur
                   /\ UNCHANGED <<remote, manifest, scan, exit>>
              ELSE /\ End(Fatal(r))
                   /\ UNCHANGED <<remote, report, counts>>
    /\ UNCHANGED <<fs, manifestFile, nextId, args, statusOut, synced>>

\* phase 1, after the answer to the update: the entry takes the version of the
\* answer and the new hash, and mf.save(manifest) writes the manifest
PushUpdateSave ==
    /\ pc = "push_updated"
    /\ LET rel_path == cur.path
           entry == get_entry(manifest, rel_path)
           m == add_entry(manifest, rel_path, Updated(entry, cur.doc, cur.content))
       IN  \E torn \in BOOLEAN :
           /\ manifestFile' = save(m, torn)
           /\ IF torn
              THEN /\ End("killed")
                   /\ UNCHANGED <<report, counts>>
              ELSE /\ manifest' = m
                   /\ report' = Append(report, Printed("updated", rel_path))
                   /\ counts' = [counts EXCEPT !.updated = @ + 1]
                   /\ pc' = "push_tracked"
                   /\ todo' = Tail(todo)
                   /\ cur' = NoCur
                   /\ UNCHANGED <<scan, exit>>
    /\ UNCHANGED <<fs, remote, nextId, args, calls, statusOut, synced, used>>

\* order of pathlib paths: their parts, compared as lists of str
RECURSIVE PartsLess(_, _)
PartsLess(ps, qs) ==
    IF qs = <<>> THEN FALSE
    ELSE IF ps = <<>> THEN TRUE
    ELSE IF Head(ps) # Head(qs) THEN StrLess(Head(ps), Head(qs))
    ELSE PartsLess(Tail(ps), Tail(qs))

RECURSIVE sorted(_)
sorted(S) ==
    IF S = {} THEN <<>>
    ELSE LET least == CHOOSE x \in S :
                        \A y \in S \ {x} : PartsLess(Tail(x), Tail(y))
         IN  <<least>> \o sorted(S \ {least})

\* an inferred category that is sent as found, also when it is no category
inferred_category_Unchecked(rel_path) ==
    LET parts == Tail(rel_path)
    IN  IF Len(parts) > 1 THEN parts[1] ELSE general

\* category of an untracked file: its first directory under knowledge/, if any
inferred_category(rel_path) ==
    LET parts == Tail(rel_path)
        first == IF Len(parts) > 1 THEN parts[1] ELSE general
    IN  IF first \notin VALID_CATEGORIES THEN general ELSE first

\* end of phase 1: sorted(knowledge_dir.rglob("*.md")) is evaluated
PushScan ==
    /\ pc = "push_tracked"
    /\ todo = <<>>
    /\ pc' = "push_untracked"
    /\ scan' = sorted(local_files(fs))
    /\ UNCHANGED <<fs, manifestFile, remote, nextId, manifest, todo, args, cur, counts,
                   calls, report, exit, statusOut, synced, used>>

\* phase 2, one iteration of the loop over the .md files
PushUntracked ==
    /\ pc = "push_untracked"
    /\ scan # <<>>
    /\ LET rel_path == Head(scan)
           category == inferred_category(rel_path)
           content == _read_local(fs, rel_path)
           title == rel_path[Len(rel_path)]
       IN
       IF \/ rel_path \in Keys(manifest)
          \/ (Truthy(args.category) /\ category # args.category)
       THEN /\ scan' = Tail(scan)
            /\ UNCHANGED <<remote, nextId, pc, manifest, todo, cur, counts,
                           calls, report, exit, used>>
       ELSE IF content = Raises \/ content = None
       THEN \* p.read_text raises outside the try block: the file cannot be
            \* read, or was removed after the directory was listed
            /\ End("traceback")
            /\ UNCHANGED <<remote, nextId, counts, calls, report, used>>
       ELSE /\ nextId <= MaxIds
            /\ \E r \in Responses("ok") :
               /\ calls' = Append(calls, Send("create", 0, title, category, content, r))
               /\ used' = Charge(r, "ok")
               /\ IF r = "ok"
                  THEN LET store == create_doc(remote, nextId, title, content, category)
                       IN  /\ remote' = store
                           /\ nextId' = nextId + 1
                           /\ cur' = [path |-> rel_path, content |-> content,
                                      doc |-> Doc(store, nextId)]
                           /\ pc' = "push_created"
                           /\ UNCHANGED <<manifest, todo, scan, counts, report, exit>>
                  ELSE IF r = "error"
                  THEN /\ report' = Append(report, Printed("error", rel_path))
                       /\ counts' = ItemError(counts)
                       /\ scan' = Continue(scan)
                       /\ UNCHANGED <<remote, nextId, pc, manifest, todo, cur, exit>>
                  ELSE /\ End(Fatal(r))
                       /\ UNCHANGED <<remote, nextId, report, counts>>
    /\ UNCHANGED <<fs, manifestFile, args, statusOut, synced>>

\* phase 2, after the answer to the create: mf.add_entry, mf.save(manifest)
PushCreateSave ==
    /\ pc = "push_created"
    /\ LET rel_path == cur.path
           m == add_entry(manifest, rel_path, Entry(cur.doc, cur.content))
       IN  \E torn \in BOOLEAN :
           /\ manifestFile' = save(m, torn)
           /\ IF torn
              THEN /\ End("killed")
                   /\ UNCHANGED <<report, counts>>
              ELSE /\ manifest' = m
                   /\ report' = Append(report, Printed("created", rel_path))
                   /\ counts' = [counts EXCEPT !.created = @ + 1]
                   /\ pc' = "push_untracked"
                   /\ scan' = Tail(scan)
                   /\ cur' = NoCur
                   /\ UNCHANGED <<todo, exit>>
    /\ UNCHANGED <<fs, remote, nextId, args, calls, statusOut, synced, used>>

\* after phase 2: the summary
PushFinish ==
    /\ pc = "push_untracked"
    /\ scan = <<>>
    /\ End("0")
    /\ UNCHANGED <<fs, manifestFile, remote, nextId, args, counts, calls, report,
                   statusOut, synced, used>>

\* the process is terminated between two steps of a batch
Interrupt ==
    /\ pc # "idle"
    /\ End("killed")
    /\ UNCHANGED <<fs, manifestFile, remote, nextId, args, counts, calls, report,
                   statusOut, synced, used>>

(***************************************************************************)
(* The initial states and the next-state relation.                         *)
(***************************************************************************)
Init ==
    /\ remote \in InitialStores
    /\ nextId = Len(CatalogueTitle) + 1
    /\ \/ \* a directory never cloned into
          /\ manifestFile = [state |-> "absent", data |-> <<>>]
          /\ fs = <<>>
          /\ synced = "no"
       \/ \* a directory as an older version left it
          /\ manifestFile = [state |-> "ok", data |-> LegacyManifest(remote)]
          /\ fs = _write_local(<<>>, LegacyManifest(remote)[1].path, remote[1].content)
          /\ synced = "no"
       \/ \* a directory as an earlier clone left it
          LET res == CloneLoop(<<1, 2>>, <<>>, <<>>) IN
          /\ manifestFile = save(res.manifest, FALSE)
          /\ fs = res.files
          /\ synced = "clone"
    /\ pc = "idle"
    /\ manifest = <<>>
    /\ todo = <<>>
    /\ scan = <<>>
    /\ args = NoArgs
    /\ cur = NoCur
    /\ counts = NoCounts
    /\ calls = <<>>
    /\ report = <<>>
    /\ exit = "none"
    /\ statusOut = NoStatus
    /\ used = [cmds |-> 0, edits |-> 0, faults |-> 0]

Next ==
    \/ \E p \in DOMAIN fs \cup AddablePaths \cup Keys(manifestFile.data), b \in Contents :
          UserWrite(p, b)
    \/ \E p \in DOMAIN fs : UserDelete(p)
    \/ \E d \in DOMAIN remote, c \in Contents : OtherWriter(d, c)
    \/ \E c \in CategoryArgs : cmd_clone(c)
    \/ CloneItem
    \/ CloneSave
    \/ cmd_status
    \/ cmd_pull
    \/ PullItem
    \/ PullSave
    \/ \E c \in CategoryArgs, d \in BOOLEAN : cmd_push(c, d)
    \/ PushTracked
    \/ PushUpdate
    \/ PushUpdateSave
    \/ PushScan
    \/ PushUntracked
    \/ PushCreateSave
    \/ PushFinish
    \/ Interrupt

Spec == Init /\ [][Next]_vars

(***************************************************************************)
(* push alone, in a cloned directory where the user has put files of their *)
(* own: at the top of knowledge/, in a category directory, in a directory  *)
(* that is no category, and deeper inside a category directory; the second *)
(* tracked file is as cloned, deleted, or present and not readable.        *)
(***************************************************************************)
UntrackedPaths ==
    { <<_KNOWLEDGE_DIR, n_md>>,
      <<_KNOWLEDGE_DIR, stack, n_md>>,
      <<_KNOWLEDGE_DIR, <<"x">>, n_md>>,
      <<_KNOWLEDGE_DIR, stack, <<"x">>, n_md>> }

InitPush ==
    /\ remote \in InitialStores
    /\ nextId = Len(CatalogueTitle) + 1
    /\ LET res == CloneLoop(<<1, 2>>, <<>>, <<>>) IN
       /\ manifestFile = save(res.manifest, FALSE)
       /\ \E kept \in SUBSET (DOMAIN res.files), added \in SUBSET UntrackedPaths :
             /\ _local_path(CatalogueCategory[1], CatalogueTitle[1]) \in kept
             /\ \E locked \in SUBSET (kept \cap
                        {_local_path(CatalogueCategory[2], CatalogueTitle[2])}) :
                   fs = [p \in kept \cup added |->
                           IF p \in locked THEN Unreadable
                           ELSE IF p \in kept THEN res.files[p]
                           ELSE write_text(<<"A">>)]
    /\ synced = "no"
    /\ pc = "idle"
    /\ manifest = <<>>
    /\ todo = <<>>
    /\ scan = <<>>
    /\ args = NoArgs
    /\ cur = NoCur
    /\ counts = NoCounts
    /\ calls = <<>>
    /\ report = <<>>
    /\ exit = "none"
    /\ statusOut = NoStatus
    /\ used = [cmds |-> 0, edits |-> 0, faults |-> 0]

NextPush ==
    \/ \E c \in {None, stack, general}, d \in BOOLEAN : cmd_push(c, d)
    \/ PushTracked
    \/ PushUpdate
    \/ PushUpdateSave
    \/ PushScan
    \/ PushUntracked
    \/ PushCreateSave
    \/ PushFinish
    \/ Interrupt

SpecPush == InitPush /\ [][NextPush]_vars

(***************************************************************************)
(* clone alone, into an empty directory, from a Remote Store whose two     *)
(* documents have any of a few titles and categories: a plain title, one   *)
(* that is sanitized to it, one with a path separator, another plain one.  *)
(***************************************************************************)
CloneTitles ==
    { a_md, <<".", "a", ".", "m", "d">>, <<"a", "/", "b">>, b_md }

CloneStores ==
    { [d \in {1, 2} |->
          [version |-> d, title |-> t[d], category |-> c[d],
           content |-> IF d = 1 THEN <<"A">> ELSE <<"B", "\r", "\n">>]]
      : t \in [{1, 2} -> CloneTitles], c \in [{1, 2} -> {stack, style}] }

InitClone ==
    /\ remote \in CloneStores
    /\ nextId = 3
    /\ manifestFile = [state |-> "absent", data |-> <<>>]
    /\ fs = <<>>
    /\ synced = "no"
    /\ pc = "idle"
    /\ manifest = <<>>
    /\ todo = <<>>
    /\ scan = <<>>
    /\ args = NoArgs
    /\ cur = NoCur
    /\ counts = NoCounts
    /\ calls = <<>>
    /\ report = <<>>
    /\ exit = "none"
    /\ statusOut = NoStatus
    /\ used = [cmds |-> 0, edits |-> 0, faults |-> 0]

NextClone ==
    \/ \E c \in CategoryArgs : cmd_clone(c)
    \/ CloneItem
    \/ CloneSave
    \/ Interrupt

SpecClone == InitClone /\ [][NextClone]_vars

(***************************************************************************)
(* clone of one document whose title, or whose category, is any string of  *)
(* at most MaxLen characters over a letter, the characters _safe_filename  *)
(* replaces ("/", "\\", NUL) and the ones it strips (".", " ").             *)
(***************************************************************************)
NameChars == {"a", ".", " ", "/", "\\", "NUL"}

RECURSIVE Strings(_)
Strings(n) ==
    IF n = 0 THEN {<<>>}
    ELSE LET shorter == Strings(n - 1)
         IN  shorter \cup {Append(t, c) : t \in {u \in shorter : Len(u) = n - 1},
                                           c \in NameChars}

PathStores ==
    { [d \in {1} |-> [version |-> 1, title |-> t, category |-> stack, content |-> <<"A">>]]
      : t \in Strings(MaxLen) }
    \cup
    { [d \in {1} |-> [version |-> 1, title |-> a_md, category |-> c, content |-> <<"A">>]]
      : c \in Strings(MaxLen) }

InitPath ==
    /\ remote \in PathStores
    /\ nextId = 2
    /\ manifestFile = [state |-> "absent", data |-> <<>>]
    /\ fs = <<>>
    /\ synced = "no"
    /\ pc = "idle"
    /\ manifest = <<>>
    /\ todo = <<>>
    /\ scan = <<>>
    /\ args = NoArgs
    /\ cur = NoCur
    /\ counts = NoCounts
    /\ calls = <<>>
    /\ report = <<>>
    /\ exit = "none"
    /\ statusOut = NoStatus
    /\ used = [cmds |-> 0, edits |-> 0, faults |-> 0]

NextPath ==
    \/ cmd_clone(None)
    \/ CloneItem
    \/ CloneSave

SpecPath == InitPath /\ [][NextPath]_vars

(***************************************************************************)
(* pull alone, in a directory cloned from the catalogue, after the Remote  *)
(* Store has moved on: the first document is as cloned or has a new        *)
(* title, category, content and version, the second is still there or has  *)
(* been deleted, a third has been created or not; of the cloned files any  *)
(* may have been removed.                                                  *)
(***************************************************************************)
ClonedStore ==
    [d \in DOMAIN CatalogueTitle |->
        [version |-> 1, title |-> CatalogueTitle[d], category |-> CatalogueCategory[d],
         content |-> <<"A">>]]

ClonedPath(d) == _local_path(CatalogueCategory[d], CatalogueTitle[d])

ClonedManifest ==
    add_entry(add_entry(<<>>, ClonedPath(1), Entry(Doc(ClonedStore, 1), <<"A">>)),
              ClonedPath(2), Entry(Doc(ClonedStore, 2), <<"A">>))

PullStores ==
    { [d \in ({1} \cup second) \cup third |->
          IF d = 1 THEN first
          ELSE IF d = 2 THEN ClonedStore[2]
          ELSE [version |-> 1, title |-> n_md, category |-> stack, content |-> <<"A">>]]
      : first \in { ClonedStore[1],
                    [version |-> 2, title |-> n_md, category |-> general,
                     content |-> <<"B", "\r", "\n">>] },
        second \in { {}, {2} },
        third \in { {}, {3} } }

InitPull ==
    /\ remote \in PullStores
    /\ nextId = 4
    /\ manifestFile = save(ClonedManifest, FALSE)
    /\ \E kept \in SUBSET {ClonedPath(1), ClonedPath(2)} :
          fs = [p \in kept |-> write_text(<<"A">>)]
    /\ synced = "no"
    /\ pc = "idle"
    /\ manifest = <<>>
    /\ todo = <<>>
    /\ scan = <<>>
    /\ args = NoArgs
    /\ cur = NoCur
    /\ counts = NoCounts
    /\ calls = <<>>
    /\ report = <<>>
    /\ exit = "none"
    /\ statusOut = NoStatus
    /\ used = [cmds |-> 0, edits |-> 0, faults |-> 0]

NextPull ==
    \/ cmd_pull
    \/ PullItem
    \/ PullSave

SpecPull == InitPull /\ [][NextPull]_vars

(***************************************************************************)
(* Sequences of commands: from an empty directory, MaxSeq commands among   *)
(* clone, pull and push run one after the other, each from what the ones   *)
(* before left; between and during them the user writes files and another  *)
(* writer updates documents (between a push's get and its update, and      *)
(* between the answer to the update and the save); a command may be        *)
(* terminated between two of its steps.  The command count starts MaxSeq   *)
(* below MaxCmds, which leaves MaxSeq commands to run.                     *)
(***************************************************************************)
InitSeq ==
    /\ remote = ClonedStore
    /\ nextId = Len(CatalogueTitle) + 1
    /\ manifestFile = [state |-> "absent", data |-> <<>>]
    /\ fs = <<>>
    /\ synced = "no"
    /\ pc = "idle"
    /\ manifest = <<>>
    /\ todo = <<>>
    /\ scan = <<>>
    /\ args = NoArgs
    /\ cur = NoCur
    /\ counts = NoCounts
    /\ calls = <<>>
    /\ report = <<>>
    /\ exit = "none"
    /\ statusOut = NoStatus
    /\ used = [cmds |-> MaxCmds - MaxSeq, edits |-> 0, faults |-> 0]

NextSeq ==
    \/ \E p \in AddablePaths \cup Keys(manifestFile.data), b \in Contents :
          UserWrite(p, b)
    \/ \E d \in DOMAIN remote, c \in Contents : OtherWriter(d, c)
    \/ cmd_clone(None)
    \/ CloneItem
    \/ CloneSave
    \/ cmd_pull
    \/ PullItem
    \/ PullSave
    \/ cmd_push(None, FALSE)
    \/ PushTracked
    \/ PushUpdate
    \/ PushUpdateSave
    \/ PushScan
    \/ PushUntracked
    \/ PushCreateSave
    \/ PushFinish
    \/ Interrupt

SpecSeq == InitSeq /\ [][NextSeq]_vars

(***************************************************************************)
(* Vocabulary of the properties.                                           *)
(***************************************************************************)
\* push is about to process the tracked entry rel_path, whose file is there and
\* whose content hash differs from the stored one
ChangedItem(rel_path) ==
    /\ pc = "push_tracked"
    /\ todo # <<>>
    /\ rel_path = Head(todo)
    /\ ~Truthy(args.category) \/ get_entry(manifest, rel_path).category = args.category
    /\ _read_local(fs, rel_path) # None
    /\ sha256(_read_local(fs, rel_path)) # get_entry(manifest, rel_path).content_hash

\* this step issues exactly the call c
Issues(c) == calls' = Append(calls, c)

\* this step issues a call
IssuesCall == Len(calls') = Len(calls) + 1

\* this step is the start of a run of the command cmd
Runs(cmd) == pc = "idle" /\ args'.cmd = cmd /\ used'.cmds = used.cmds + 1

\* the elements of a list
Range(q) == {q[i] : i \in DOMAIN q}

\* the id the manifest file records for rel_path
IdOnDisk(rel_path) == get_entry(manifestFile.data, rel_path).id

\* the calls of the running (or last) command that name doc_id
CallsFor(doc_id) == {i \in DOMAIN calls : calls[i].id = doc_id}

(***************************************************************************)
(* C1  A changed entry whose remote version differs from the stored one is *)
(* reported as a conflict: the step that finds it prints the conflict,     *)
(* issues no update, leaves the manifest (in memory and on disk), the      *)
(* local files and the Remote Store as they are and goes on with the next  *)
(* entry; no update for that document is issued later in the push either.  *)
(***************************************************************************)
NoUpdateAfterConflict ==
    \A i \in DOMAIN report :
        (report[i].kind = "conflict" /\ report[i].path \in Keys(manifestFile.data))
        => \A j \in CallsFor(IdOnDisk(report[i].path)) : calls[j].op # "update"

C1_ConflictLeavesEntryUntouched ==
    [][ /\ \A p \in Keys(manifest) :
             LET entry == get_entry(manifest, p) IN
             ( /\ ChangedItem(p)
               /\ Issues(Call("get", entry.id, None, "ok"))
               /\ remote[entry.id].version # entry.version )
             => /\ report' = Append(report, Printed("conflict", p))
                /\ counts' = [counts EXCEPT !.errors = @ + 1]
                /\ manifest' = manifest
                /\ manifestFile' = manifestFile
                /\ fs' = fs
                /\ remote' = remote
                /\ pc' = "push_tracked"
                /\ todo' = Tail(todo)
        /\ NoUpdateAfterConflict' ]_vars

\* a push that reported a conflict, went on to a later item and ended normally
C1_Witness ==
    /\ args.cmd = "push"
    /\ exit = "0"
    /\ \E i, j \in DOMAIN report : i < j /\ report[i].kind = "conflict"

(***************************************************************************)
(* C2  A tracked entry whose file is missing: without --delete push makes  *)
(* no call for it and the manifest file keeps the entry; with --delete and *)
(* a successful remote delete the push ends with the entry absent from the *)
(* manifest file.                                                          *)
(***************************************************************************)
C2_DeleteRemovesEntry ==
    (args.cmd = "push" /\ exit = "0" /\ manifestFile.state = "ok")
    => \A i \in DOMAIN report :
          /\ report[i].kind = "deleted"
             => report[i].path \notin Keys(manifestFile.data)
          /\ report[i].kind = "skipped"
             => /\ report[i].path \in Keys(manifestFile.data)
                /\ CallsFor(IdOnDisk(report[i].path)) = {}

(***************************************************************************)
(* C3  A changed entry whose stored version equals the remote one is       *)
(* updated: after the get, push goes on to update_doc with the content it  *)
(* read from the file in that iteration, issues it once, and when it       *)
(* succeeds the manifest file holds the version the server returned and    *)
(* the hash of the content sent, so that status, run on the files as they  *)
(* are, does not list the path as modified.  The local content is the one  *)
(* push read: the file is read once per entry, before the get, and a file  *)
(* the user rewrites while the requests are under way is sent and recorded *)
(* as it was read; status then lists it, as it lists any later edit.       *)
(***************************************************************************)
AtMostOneUpdate ==
    \A i, j \in DOMAIN calls :
        (calls[i].op = "update" /\ calls[j].op = "update" /\ calls[i].id = calls[j].id)
        => i = j

C4_NoEditsNoMutation ==
    (args.cmd = "push" /\ synced # "no")
    => \A i \in DOMAIN calls : calls[i].op \notin {"create", "update", "delete"}

(***************************************************************************)
(* C5  After a clone into an empty directory that wrote a manifest, status *)
(* (run on the manifest file and the files as the clone left them) has     *)
(* nothing to report: New, Modified and Deleted are empty.  The step is    *)
(* the save that ends the clone; the directory was empty when the clone    *)
(* began, so it holds no file but the ones the clone wrote under its keys. *)
(***************************************************************************)
C5_CloneThenStatusClean ==
    [][ ( /\ args.cmd = "clone"
          /\ pc = "clone_loop"
          /\ DOMAIN fs \subseteq Keys(manifest)
          /\ exit' = "0"
          /\ manifestFile'.state = "ok" )
        => /\ StatusNew(manifestFile'.data, fs') = {}
           /\ StatusModified(manifestFile'.data, fs') = {}
           /\ StatusDeleted(manifestFile'.data, fs') = {} ]_vars

(***************************************************************************)
(* C6  What status prints is a classification of the manifest keys and the *)
(* .md files: New are the .md files that are no key, Deleted the keys      *)
(* without a file, Modified the keys with a file and a stored hash that    *)
(* differs from the hash of the file's content; the three sets are         *)
(* pairwise disjoint, so every path is in exactly one of new, modified,    *)
(* deleted or (in none of them) unchanged.                                 *)
(***************************************************************************)
C6_StatusPartitions ==
    [][ (Runs("status") /\ statusOut'.ran)
        => LET out == statusOut'
               keys == Keys(manifestFile.data)
               present == DOMAIN fs
               paths == keys \cup {p \in present : EndsWithMd(p[Len(p)])}
               stored(p) == get_entry(manifestFile.data, p).content_hash
           IN  /\ out.new \cap out.modified = {}
               /\ out.new \cap out.deleted = {}
               /\ out.modified \cap out.deleted = {}
               /\ out.new \cup out.modified \cup out.deleted \subseteq paths
               /\ \A p \in paths :
                     /\ p \in out.new <=> (p \in present /\ p \notin keys)
                     /\ p \in out.deleted <=> (p \in keys /\ p \notin present)
                     /\ p \in out.modified <=>
                           /\ p \in keys
                           /\ p \in present
                           /\ stored(p) # None
                           /\ stored(p) # sha256(read_text(fs[p])) ]_vars

\* a status that printed a new, a modified and a deleted path
C6_Witness ==
    /\ statusOut.ran
    /\ statusOut.new # {}
    /\ statusOut.modified # {}
    /\ statusOut.deleted # {}

(***************************************************************************)
(* C7  status and push (no category filter, --delete) classify alike: push *)
(* fetches the remote version of an entry exactly when status lists it as  *)
(* Modified, takes the deleted-locally branch exactly when status lists it *)
(* as Deleted, and creates a file exactly when status lists it as New.     *)
(***************************************************************************)
C7_StatusAndPushAgree ==
    [][ /\ ( /\ pc = "push_tracked"
             /\ todo # <<>>
             /\ args.category = None
             /\ args.delete
             /\ exit' # "killed" )
           => LET p == Head(todo) IN
              /\ (IssuesCall /\ calls'[Len(calls')].op = "get")
                 <=> p \in StatusModified(manifest, fs)
              /\ (IssuesCall /\ calls'[Len(calls')].op = "delete")
                 <=> p \in StatusDeleted(manifest, fs)
        /\ ( /\ pc = "push_untracked"
             /\ scan # <<>>
             /\ args.category = None
             /\ exit' # "killed" )
           => ( (IssuesCall /\ calls'[Len(calls')].op = "create")
                <=> Head(scan) \in StatusNew(manifest, fs) ) ]_vars

(***************************************************************************)
(* C8  Whenever a push issues a Remote Store call, the manifest file holds *)
(* the manifest as the earlier successful updates, creates and deletes of  *)
(* that push left it.                                                      *)
(***************************************************************************)
C8_SavedBeforeNextCall ==
    [][ (args.cmd = "push" /\ pc # "idle" /\ IssuesCall)
        => manifestFile.data = manifest ]_vars

(***************************************************************************)
(* C9  The manifest file is never left truncated: it holds a complete      *)
(* manifest whenever it exists.                                            *)
(***************************************************************************)
C9_ManifestNeverTorn == manifestFile.state # "torn"

(***************************************************************************)
(* C10  A push terminated between two of its steps leaves no entry of the  *)
(* manifest file pointing at a document that is deleted.                   *)
(***************************************************************************)
C10_InterruptedPushConsistent ==
    (args.cmd = "push" /\ exit = "killed" /\ manifestFile.state = "ok")
    => \A p \in Keys(manifestFile.data) : IdOnDisk(p) \in DOMAIN remote

(***************************************************************************)
(* C11  A timeout or transport failure of a call made for one item during  *)
(* pull or push is that item's error: the step counts one error and the    *)
(* command goes on with the batch instead of ending.                       *)
(***************************************************************************)
C11_TransportFailureIsItemError ==
    [][ ( /\ args.cmd \in {"pull", "push"}
          /\ pc # "idle"
          /\ IssuesCall
          /\ calls'[Len(calls')].result = "timeout" )
        => /\ pc' # "idle"
           /\ counts'.errors = counts.errors + 1 ]_vars

(***************************************************************************)
(* C12  A command whose precondition fails (clone where the manifest file  *)
(* exists, pull / status / push where it does not, clone / push with a     *)
(* category given that is not in the fixed set) exits with code 1, issues  *)
(* no Remote Store call and changes neither the manifest file, nor a local *)
(* file, nor the Remote Store.                                             *)
(***************************************************************************)
PreconditionFails ==
    \/ args'.cmd = "clone" /\ is_initialized
    \/ args'.cmd \in {"pull", "status", "push"} /\ ~is_initialized
    \/ /\ args'.cmd \in {"clone", "push"}
       /\ args'.category # None
       /\ args'.category \notin VALID_CATEGORIES

C12_PreconditionFailureIsFatal ==
    [][ ( /\ \E cmd \in {"clone", "pull", "status", "push"} : Runs(cmd)
          /\ PreconditionFails )
        => /\ exit' = "1"
           /\ pc' = "idle"
           /\ calls' = <<>>
           /\ fs' = fs
           /\ manifestFile' = manifestFile
           /\ remote' = remote ]_vars

(***************************************************************************)
(* C13  When pull ends, every entry whose document was fetched has its     *)
(* file holding the fetched content, its saved entry carrying the          *)
(* version, title, category and content hash of the fetched document, and  *)
(* status, run on what pull left, lists the path neither as Modified nor   *)
(* as Deleted.                                                             *)
(***************************************************************************)
C13_PullOverwrites ==
    [][ (pc = "pull_loop" /\ todo = <<>> /\ exit' = "0")
        => \A i \in DOMAIN calls :
              calls[i].result = "ok"
              => LET p == manifest[i].path
                     doc == Doc(remote, calls[i].id)
                     saved == get_entry(manifestFile'.data, p)
                 IN  /\ p \in DOMAIN fs'
                     /\ fs'[p] = doc.content
                     /\ saved.version = doc.version
                     /\ saved.title = doc.title
                     /\ saved.category = doc.category
                     /\ saved.content_hash = sha256(doc.content)
                     /\ p \notin StatusModified(manifestFile'.data, fs')
                     /\ p \notin StatusDeleted(manifestFile'.data, fs') ]_vars

(***************************************************************************)
(* C14  During pull a fetch answered with an error leaves the entry and    *)
(* the local files as they are, counts one error and goes on with the next *)
(* entry; the manifest file is not written while entries remain; when pull *)
(* ends every entry has been fetched once, in order, and the one save      *)
(* holds the loaded entry for each failed fetch and the fetched version    *)
(* and hash for each successful one.                                       *)
(***************************************************************************)
C14_FailedFetchIsSkipped ==
    [][ /\ (pc = "pull_loop" /\ IssuesCall /\ calls'[Len(calls')].result = "error")
           => /\ fs' = fs
              /\ manifest' = manifest
              /\ manifestFile' = manifestFile
              /\ counts' = [counts EXCEPT !.errors = @ + 1]
              /\ pc' = "pull_loop"
              /\ todo' = Tail(todo)
        /\ (pc = "pull_loop" /\ todo # <<>>) => manifestFile' = manifestFile
        /\ (pc = "pull_loop" /\ todo = <<>> /\ exit' = "0")
           => /\ Len(calls) = Len(manifest)
              /\ manifestFile' = [state |-> "ok", data |-> manifest]
              /\ counts.errors = Cardinality({i \in DOMAIN calls : calls[i].result = "error"})
              /\ \A i \in DOMAIN manifest :
                    /\ calls[i].op = "get"
                    /\ calls[i].id = manifest[i].entry.id
                    /\ calls[i].result = "error" => manifest[i] = manifestFile.data[i]
                    /\ calls[i].result = "ok"
                       => /\ manifest[i].entry.version = remote[calls[i].id].version
                          /\ manifest[i].entry.content_hash
                                = sha256(remote[calls[i].id].content) ]_vars

\* a pull that ended normally after a failed fetch followed by a successful one
C14_Witness ==
    /\ args.cmd = "pull"
    /\ exit = "0"
    /\ manifestFile.state = "ok"
    /\ \E i, j \in DOMAIN calls :
          i < j /\ calls[i].result = "error" /\ calls[j].result = "ok"

(***************************************************************************)
(* C15  The category push sends in the create of an untracked file is a    *)
(* member of the fixed set: the first directory under knowledge/ when the  *)
(* file is inside a directory and that name is a category, general when    *)
(* the file is directly in knowledge/, general when the first directory is *)
(* no category.                                                            *)
(***************************************************************************)
C15_InferredCategory ==
    [][ (pc = "push_untracked" /\ IssuesCall /\ calls'[Len(calls')].op = "create")
        => LET under == Tail(Head(scan))
               sent == calls'[Len(calls')].category
           IN  /\ sent \in VALID_CATEGORIES
               /\ Len(under) = 1 => sent = general
               /\ (Len(under) > 1 /\ under[1] \in VALID_CATEGORIES) => sent = under[1]
               /\ (Len(under) > 1 /\ under[1] \notin VALID_CATEGORIES)
                  => sent = general ]_vars

\* a push that created a top-level file, one in a category directory and one in
\* a directory that is no category
C15_Witness ==
    /\ args.cmd = "push"
    /\ exit = "0"
    /\ \A p \in { <<_KNOWLEDGE_DIR, n_md>>, <<_KNOWLEDGE_DIR, stack, n_md>>,
                   <<_KNOWLEDGE_DIR, <<"x">>, n_md>> } :
          \E i \in DOMAIN report : report[i] = Printed("created", p)

(***************************************************************************)
(* C16  A Remote Store call answered 401 or 403 ends the process with exit *)
(* code 1 in the step that made it, whatever the command and the position  *)
(* in the batch: the call is the last one of the invocation (no retry, no  *)
(* further call).                                                          *)
(***************************************************************************)
AuthIsLastCall ==
    \A i \in DOMAIN calls : calls[i].result = "auth" => i = Len(calls)

C16_AuthIsFatal ==
    [][ /\ ( /\ calls' # calls
             /\ calls' # <<>>
             /\ calls'[Len(calls')].result = "auth" )
           => /\ pc' = "idle"
              /\ exit' = "1"
        /\ AuthIsLastCall' ]_vars

\* a push that was answered 401 / 403 after an earlier call of its batch
C16_Witness ==
    /\ args.cmd = "push"
    /\ exit = "1"
    /\ Len(calls) >= 2
    /\ calls[Len(calls)].result = "auth"

(***************************************************************************)
(* C17  status issues no Remote Store call and changes neither the         *)
(* manifest file nor a local file nor the Remote Store; what it prints is  *)
(* what a status run on the state it leaves prints; it reports "nothing to *)
(* push" exactly when New, Modified and Deleted are all empty.             *)
(***************************************************************************)
C17_StatusReadOnly ==
    [][ Runs("status")
        => /\ calls' = <<>>
           /\ fs' = fs
           /\ manifestFile' = manifestFile
           /\ remote' = remote
           /\ statusOut'.ran
              => /\ statusOut'.new = StatusNew(manifestFile'.data, fs')
                 /\ statusOut'.modified = StatusModified(manifestFile'.data, fs')
                 /\ statusOut'.deleted = StatusDeleted(manifestFile'.data, fs')
                 /\ statusOut'.nothing
                    <=> ( /\ statusOut'.new = {}
                          /\ statusOut'.modified = {}
                          /\ statusOut'.deleted = {} ) ]_vars

\* a status that found tracked files and reported nothing to push
C17_Witness ==
    /\ args.cmd = "status"
    /\ statusOut.ran
    /\ statusOut.nothing
    /\ DOMAIN fs # {}

(***************************************************************************)
(* C18  In push's second phase every .md file that is no manifest key and  *)
(* passes the category filter gets one create call, with the file name as  *)
(* title and the text of the file as content, and the loop moves on; a     *)
(* file that is a manifest key gets no call.  When the create succeeds the *)
(* manifest file holds an entry for the path with the id and version the   *)
(* server returned and the hash of the content sent, so that status lists  *)
(* the path neither as New nor as Modified and a later push, which skips   *)
(* manifest keys, does not create it again.                                *)
(***************************************************************************)
PassesFilter(rel_path) ==
    ~Truthy(args.category) \/ inferred_category(rel_path) = args.category

C18_UntrackedFileIsCreatedOnce ==
    [][ /\ ( /\ pc = "push_untracked"
             /\ scan # <<>>
             /\ Head(scan) \notin Keys(manifest)
             /\ PassesFilter(Head(scan))
             /\ ~(exit' = "killed" /\ calls' = calls) )
           => LET p == Head(scan) IN
              /\ IssuesCall
              /\ calls'[Len(calls')].op = "create"
              /\ calls'[Len(calls')].title = p[Len(p)]
              /\ calls'[Len(calls')].content = _read_local(fs, p)
              /\ \/ pc' = "idle"
                 \/ pc' = "push_created"
                 \/ (scan' = Tail(scan) /\ p \notin Range(scan'))
        /\ ( /\ pc = "push_untracked"
             /\ scan # <<>>
             /\ (Head(scan) \in Keys(manifest) \/ ~PassesFilter(Head(scan))) )
           => /\ calls' = calls
              /\ manifestFile' = manifestFile
        /\ ( /\ pc = "push_untracked"
             /\ IssuesCall
             /\ calls'[Len(calls')].result = "ok" )
           => /\ pc' = "push_created"
              /\ cur'.path = Head(scan)
              /\ cur'.content = calls'[Len(calls')].content
              /\ cur'.doc.id \in DOMAIN remote' \ DOMAIN remote
              /\ cur'.doc.version = remote'[cur'.doc.id].version
              /\ remote'[cur'.doc.id].content = calls'[Len(calls')].content
              /\ manifestFile' = manifestFile
        /\ (pc = "push_created" /\ exit' # "killed")
           => LET p == cur.path
                  saved == get_entry(manifestFile'.data, p)
              IN  /\ calls' = calls
                  /\ remote' = remote
                  /\ manifestFile'.state = "ok"
                  /\ p \in Keys(manifestFile'.data)
                  /\ saved.id = cur.doc.id
                  /\ saved.version = cur.doc.version
                  /\ saved.content_hash = sha256(cur.content)
                  /\ p \notin StatusNew(manifestFile'.data, fs')
                  /\ p \notin StatusModified(manifestFile'.data, fs')
                  /\ p \in Keys(manifest')
                  /\ scan' = Tail(scan)
                  /\ p \notin Range(scan') ]_vars

\* a push that created two files of the user and ended normally
C18_Witness ==
    /\ args.cmd = "push"
    /\ exit = "0"
    /\ counts.created >= 2
    /\ \E i, j \in DOMAIN report :
          /\ i < j
          /\ report[i].kind = "created"
          /\ report[j].kind = "created"
          /\ {report[i].path, report[j].path} \subseteq Keys(manifestFile.data)

(***************************************************************************)
(* C19  During push a delete, get, update or create answered with an error *)
(* other than 401 / 403 concerns its item only: the manifest (in memory    *)
(* and on disk), the local files and the Remote Store stay as they are,    *)
(* one error is counted, and the loop goes on with the next item; the      *)
(* second phase starts when every tracked entry has been processed and the *)
(* push ends when every file has been: each changed or deleted entry and   *)
(* each file that is no key then has its line in the output.               *)
(***************************************************************************)
HasLine(rel_path) == \E i \in DOMAIN report : report[i].path = rel_path

C19_ErrorIsScopedToItem ==
    [][ /\ ( /\ args.cmd = "push"
             /\ pc # "idle"
             /\ IssuesCall
             /\ calls'[Len(calls')].result = "error" )
           => /\ manifest' = manifest
              /\ manifestFile' = manifestFile
              /\ fs' = fs
              /\ remote' = remote
              /\ counts' = [counts EXCEPT !.errors = @ + 1]
              /\ report' = Append(report, Printed("error",
                                 IF pc = "push_untracked" THEN Head(scan) ELSE Head(todo)))
              /\ pc \in {"push_tracked", "push_update"}
                 => pc' = "push_tracked" /\ todo' = Tail(todo)
              /\ pc = "push_untracked"
                 => pc' = "push_untracked" /\ scan' = Tail(scan)
        /\ (pc = "push_tracked" /\ pc' = "push_untracked")
           => /\ todo = <<>>
              /\ \A p \in Keys(manifest) :
                    \/ Truthy(args.category) /\ get_entry(manifest, p).category # args.category
                    \/ /\ _read_local(fs, p) # None
                       /\ Unchanged(get_entry(manifest, p), _read_local(fs, p))
                    \/ HasLine(p)
        /\ (pc = "push_untracked" /\ exit' = "0")
           => /\ scan = <<>>
              /\ \A p \in local_files(fs) :
                    p \in Keys(manifest) \/ ~PassesFilter(p) \/ HasLine(p) ]_vars

\* a push that ended normally after an item's error followed by another item's
\* update, create or delete
C19_Witness ==
    /\ args.cmd = "push"
    /\ exit = "0"
    /\ counts.errors = 1
    /\ \E i, j \in DOMAIN report :
          /\ i < j
          /\ report[i].kind = "error"
          /\ report[j].kind \in {"updated", "created", "deleted"}

(***************************************************************************)
(* C20  After a clone into an empty directory that received documents,     *)
(* every document received has a manifest entry with its id and version    *)
(* whose file holds its content, and there are as many manifest keys as    *)
(* documents received.                                                     *)
(***************************************************************************)
C20_CloneTracksEveryDocument ==
    [][ ( /\ args.cmd = "clone"
          /\ pc = "clone_loop"
          /\ manifestFile.state = "absent"
          /\ exit' = "0"
          /\ manifestFile'.state = "ok" )
        => LET returned == list_docs(args.category)
               m == manifestFile'.data
           IN  /\ \A d \in returned :
                     \E p \in Keys(m) :
                        /\ get_entry(m, p).id = d
                        /\ get_entry(m, p).version = remote[d].version
                        /\ p \in DOMAIN fs'
                        /\ fs'[p] = remote[d].content
               /\ Cardinality(Keys(m)) = Cardinality(returned) ]_vars

(***************************************************************************)
(* C21  A push with a category of the fixed set as filter makes a get,     *)
(* update or delete call only for a tracked entry whose stored category is *)
(* the filter and a create call only for a file whose inferred category is *)
(* the filter; the entries of every other category stay as they are, in    *)
(* memory and in the manifest file.                                        *)
(***************************************************************************)
OtherCategory(m) ==
    {p \in Keys(m) : get_entry(m, p).category # args.category}

C21_FilterIsAFrame ==
    [][ (args.cmd = "push" /\ pc # "idle" /\ args.category \in VALID_CATEGORIES)
        => /\ IssuesCall
              => LET c == calls'[Len(calls')] IN
                 \/ /\ c.op = "create"
                    /\ c.category = args.category
                    /\ pc = "push_untracked"
                    /\ Tail(Head(scan)) # <<>>
                    /\ IF Len(Head(scan)) > 2 /\ Head(scan)[2] \in VALID_CATEGORIES
                       THEN Head(scan)[2] = args.category
                       ELSE args.category = general
                 \/ /\ c.op \in {"get", "update", "delete"}
                    /\ \E p \in Keys(manifest) :
                          /\ get_entry(manifest, p).id = c.id
                          /\ get_entry(manifest, p).category = args.category
           /\ pc' # "idle"
              => \A p \in OtherCategory(manifest) :
                    /\ p \in Keys(manifest')
                    /\ get_entry(manifest', p) = get_entry(manifest, p)
           /\ manifestFile'.state = "ok"
              => \A p \in OtherCategory(manifestFile.data) :
                    /\ p \in Keys(manifestFile'.data)
                    /\ get_entry(manifestFile'.data, p) = get_entry(manifestFile.data, p) ]_vars

\* a filtered push that made calls and ended normally while a tracked entry of
\* another category had its file changed or missing and a file of another
\* category was untracked
C21_Witness ==
    /\ args.cmd = "push"
    /\ args.category = stack
    /\ exit = "0"
    /\ calls # <<>>
    /\ manifestFile.state = "ok"
    /\ \E p \in OtherCategory(manifestFile.data) : p \notin DOMAIN fs
    /\ \E p \in local_files(fs) : p \notin Keys(manifestFile.data)

(***************************************************************************)
(* C22  Every path clone writes to, and every key it records, has the form *)
(* knowledge/<segment>/<segment> where a segment is not empty, holds no    *)
(* "/", no "\\" and no NUL and does not begin with "." or " ": the parts of *)
(* the path are the three parts joined, so the file is below knowledge/.   *)
(***************************************************************************)
SafeSegment(seg) ==
    /\ seg # <<>>
    /\ \A i \in DOMAIN seg : seg[i] \notin {"/", "\\", "NUL"}
    /\ seg[1] \notin {".", " "}

SafePath(p) ==
    /\ Len(p) = 3
    /\ p[1] = _KNOWLEDGE_DIR
    /\ SafeSegment(p[2])
    /\ SafeSegment(p[3])

C22_ClonePathIsSafe ==
    [][ /\ (Runs("clone") /\ pc' = "clone_loop")
           => \A i \in DOMAIN todo' :
                 SafePath(_local_path(todo'[i].category, todo'[i].title))
        /\ (args.cmd = "clone" /\ pc = "clone_loop")
           => /\ \A p \in DOMAIN fs' :
                    (p \notin DOMAIN fs \/ fs'[p] # fs[p]) => SafePath(p)
              /\ \A p \in Keys(manifest') : SafePath(p)
              /\ manifestFile'.state = "ok"
                    => \A p \in Keys(manifestFile'.data) : SafePath(p) ]_vars

\* a clone of a document titled "../" that wrote knowledge/stack/_
C22_Witness ==
    /\ args.cmd = "clone"
    /\ exit = "0"
    /\ 1 \in DOMAIN remote
    /\ remote[1].title = <<".", ".", "/">>
    /\ DOMAIN fs = { <<_KNOWLEDGE_DIR, stack, <<"_">>>> }

(***************************************************************************)
(* C23  The version check of push does not prevent a lost update: when the *)
(* remote document has been updated by another writer after push's get     *)
(* found the versions equal, push still issues its update, and when the    *)
(* update succeeds the other writer's content is replaced, the path is     *)
(* printed as updated and no conflict or error is reported for it.         *)
(***************************************************************************)
Overtaken ==
    /\ pc = "push_update"
    /\ get_entry(manifest, cur.path).id \in DOMAIN remote
    /\ remote[get_entry(manifest, cur.path).id].version
          # get_entry(manifest, cur.path).version

\* the answer to the update carries a version more than one past the stored
\* one: the update went on top of another writer's
OvertakenAnswered ==
    /\ pc = "push_updated"
    /\ cur.doc.version > get_entry(manifest, cur.path).version + 1

C23_VersionCheckIsDetection ==
    [][ /\ (Overtaken /\ pc' # "push_update" /\ ~(exit' = "killed" /\ calls' = calls))
           => /\ IssuesCall
              /\ calls'[Len(calls')].op = "update"
              /\ calls'[Len(calls')].id = get_entry(manifest, cur.path).id
              /\ calls'[Len(calls')].content = cur.content
        /\ ( /\ Overtaken
             /\ IssuesCall
             /\ calls'[Len(calls')].result = "ok" )
           => LET p == cur.path
                  doc_id == get_entry(manifest, p).id
              IN  /\ remote'[doc_id].content = cur.content
                  /\ remote'[doc_id].version = remote[doc_id].version + 1
                  /\ pc' = "push_updated"
                  /\ cur'.doc.version = remote'[doc_id].version
                  /\ report' = report
                  /\ counts' = counts
        /\ (OvertakenAnswered /\ pc' # "push_updated" /\ exit' # "killed")
           => LET p == cur.path
              IN  /\ report' = Append(report, Printed("updated", p))
                  /\ counts'.errors = counts.errors
                  /\ get_entry(manifestFile'.data, p).version = cur.doc.version ]_vars

\* a single push from a fresh clone that ended normally with a document at
\* version 3: another writer's version 2 was overwritten, and the path is
\* printed as updated, not as a conflict
C23_Witness ==
    /\ args.cmd = "push"
    /\ exit = "0"
    /\ used.cmds = 1
    /\ manifestFile.state = "ok"
    /\ \E i \in DOMAIN report :
          /\ report[i].kind = "updated"
          /\ report[i].path \in Keys(manifestFile.data)
          /\ get_entry(manifestFile.data, report[i].path).version = 3
          /\ IdOnDisk(report[i].path) \in DOMAIN remote
          /\ remote[IdOnDisk(report[i].path)].version = 3
          /\ \A j \in DOMAIN report :
                report[j].path = report[i].path => report[j].kind = "updated"

(***************************************************************************)
(* C24  During push, a tracked file that exists but cannot be read is      *)
(* handled exactly like a file that is absent: the step of the loop that   *)
(* reaches it takes the deleted-locally branch (with the delete flag it    *)
(* issues the delete call for the entry's document, without it it prints   *)
(* the item as skipped and issues no call) and push goes on with the rest  *)
(* of the batch, never ending in a traceback.                              *)
(* The code does not do this: _read_local returns None only when the file  *)
(* does not exist, the read of an existing file raises, and nothing        *)
(* catches it.                                                             *)
(***************************************************************************)
UnreadableEntry ==
    /\ pc = "push_tracked"
    /\ todo # <<>>
    /\ Head(todo) \in DOMAIN fs
    /\ fs[Head(todo)] = Unreadable
    /\ ~(Truthy(args.category)
          /\ get_entry(manifest, Head(todo)).category # args.category)

C24_UnreadableIsDeletedLocally ==
    [][ UnreadableEntry
           => /\ exit' # "traceback"
              /\ args.delete
                    => /\ IssuesCall
                       /\ calls'[Len(calls')].op = "delete"
                       /\ calls'[Len(calls')].id = get_entry(manifest, Head(todo)).id
              /\ ~args.delete
                    => /\ calls' = calls
                       /\ report' = Append(report, Printed("skipped", Head(todo)))
                       /\ todo' = Tail(todo)
                       /\ pc' = "push_tracked" ]_vars

(***************************************************************************)
(* C25  pull never changes the set of manifest keys or the id of any       *)
(* entry.  The manifest it loads has the keys and ids of the file; no      *)
(* iteration of its loop changes the keys, their order or the id under a   *)
(* key; an entry whose document is gone from the Remote Store gets a       *)
(* failed fetch and stays as it is; a document that has no entry gets      *)
(* none; an entry whose fetched title or category differ stays under its   *)
(* path; and the manifest that the completed save writes has the keys and  *)
(* ids the file had before.                                                *)
(***************************************************************************)
KeyIds(m) == {<<m[i].path, m[i].entry.id>> : i \in DOMAIN m}

C25_PullKeepsKeysAndIds ==
    [][ /\ (Runs("pull") /\ pc' = "pull_loop")
           => /\ manifestFile' = manifestFile
              /\ KeyList(manifest') = KeyList(manifestFile.data)
              /\ KeyIds(manifest') = KeyIds(manifestFile.data)
        /\ (pc = "pull_loop" /\ pc' = "pull_loop")
           => /\ manifestFile' = manifestFile
              /\ KeyList(manifest') = KeyList(manifest)
              /\ KeyIds(manifest') = KeyIds(manifest)
              /\ get_entry(manifest, Head(todo)).id \notin DOMAIN remote
                    => /\ manifest' = manifest
                       /\ fs' = fs
        /\ (pc = "pull_loop" /\ manifestFile' # manifestFile /\ manifestFile'.state = "ok")
           => /\ KeyList(manifestFile'.data) = KeyList(manifestFile.data)
              /\ KeyIds(manifestFile'.data) = KeyIds(manifestFile.data) ]_vars

\* a pull has completed in which the fetch of a deleted document failed, a
\* fetched document has another title and category than its entry's path
\* was derived from, and a document created remotely has no entry
C25_Witness ==
    /\ args.cmd = "pull"
    /\ exit = "0"
    /\ counts.errors = 1
    /\ counts.updated = 1
    /\ 2 \notin DOMAIN remote
    /\ 3 \in DOMAIN remote
    /\ \E i \in DOMAIN manifestFile.data :
          LET e == manifestFile.data[i] IN
          /\ e.entry.id = 1
          /\ e.entry.version = 2
          /\ e.path # _local_path(e.entry.category, e.entry.title)
    /\ \A i \in DOMAIN manifestFile.data : manifestFile.data[i].entry.id # 3

(***************************************************************************)
(* C26  The server only ever increases a document's version (update_doc    *)
(* adds one, nothing lowers it).  Then in every state, for every manifest  *)
(* entry, in memory and in the manifest file, whose document is in the     *)
(* Remote Store, the stored version is at most the document's version;     *)
(* and no step lowers the stored version of an entry that stays under its  *)
(* path with its id.                                                       *)
(***************************************************************************)
NotAhead(m) ==
    \A i \in DOMAIN m :
        m[i].entry.id \in DOMAIN remote
           => m[i].entry.version <= remote[m[i].entry.id].version

VersionsNotAhead == NotAhead(manifest) /\ NotAhead(manifestFile.data)

NotLowered(m, n) ==
    \A p \in Keys(m) \cap Keys(n) :
        get_entry(m, p).id = get_entry(n, p).id
           => get_entry(m, p).version <= get_entry(n, p).version

C26_StoredVersionNeverAhead ==
    [][ /\ VersionsNotAhead
        /\ VersionsNotAhead'
        /\ \A d \in DOMAIN remote \cap DOMAIN remote' :
              remote[d].version <= remote'[d].version
        /\ NotLowered(manifest, manifest')
        /\ NotLowered(manifestFile.data, manifestFile'.data) ]_vars

\* the commands run since the empty directory
CommandsRun == used.cmds - (MaxCmds - MaxSeq)

\* three commands have run from the empty directory; the last, a push that
\* started from a stored version above the first, has updated a document
\* and its entry records version 3, the version of the document
C26_Witness ==
    /\ CommandsRun >= 3
    /\ args.cmd = "push"
    /\ exit = "0"
    /\ counts.updated = 1
    /\ manifestFile.state = "ok"
    /\ \E i \in DOMAIN manifestFile.data :
          LET e == manifestFile.data[i].entry
          IN  /\ report = <<Printed("updated", manifestFile.data[i].path)>>
              /\ e.id \in DOMAIN remote
              /\ e.version = 3
              /\ remote[e.id].version = 3
              /\ Len(calls) = 2

====
